---- MODULE Spec2Model ----
(***************************************************************************)
(* A model of get_pi_data.py: the window resolution and packet-size clamp  *)
(* of the main block, extract_data, and the packet loop of getTag with     *)
(* export / export_average writing the per-tag output file.                *)
(*                                                                         *)
(* Time is counted in ticks, the resolution of datetime/timedelta (one     *)
(* microsecond in the program).  TicksPerSecond scales a second down so    *)
(* that sub-second instants exist; strftime('%d.%m.%Y  %H:%M:%S') drops    *)
(* the sub-second part.                                                    *)
(***************************************************************************)
EXTENDS Integers, Sequences, FiniteSets, TLC

(***************************************************************************)
(* Bounds of the model.                                                    *)
(***************************************************************************)
MaxStart == 1

MaxEnd == 4

MaxLog == 3

(***************************************************************************)
(* Resolution of the clock: ticks in one second.                           *)
(***************************************************************************)
TicksPerSecond == 2

\* ---------------------------------------------------------------- helpers
RECURSIVE Pow10(_)
Pow10(n) == IF n <= 0 THEN 1 ELSE 10 * Pow10(n - 1)

IsPrefix(s, t) == Len(s) <= Len(t) /\ SubSeq(t, 1, Len(s)) = s

Drop(s, n) == SubSeq(s, n + 1, Len(s))

\* ------------------------------------------------- datetime and timedelta
\* d.strftime('%d.%m.%Y  %H:%M:%S'): the instant with its sub-second part cut
strftime(t) == t - (t % TicksPerSecond)

\* timedelta / 2: the quotient rounded to the nearest tick, halves to even
HalfDelta(delta) ==
    LET q == delta \div 2
    IN  IF delta % 2 = 0 THEN q
        ELSE IF q % 2 = 0 THEN q ELSE q + 1

\* timedelta(days=.., hours=.., minutes=.., seconds=..)
timedelta(days, hours, minutes, seconds) ==
    (days * 86400 + hours * 3600 + minutes * 60 + seconds) * TicksPerSecond

\* --------------------------------------------------------------- parse_time
Digits == <<"0", "1", "2", "3", "4", "5", "6", "7", "8", "9">>

IsDigit(c) == \E i \in 1..10 : Digits[i] = c

DigitVal(c) == (CHOOSE i \in 1..10 : Digits[i] = c) - 1

RECURSIVE DigitRun(_)
\* the length of the longest run of digits at the start of str
DigitRun(str) ==
    IF str # <<>> /\ IsDigit(Head(str)) THEN 1 + DigitRun(Tail(str)) ELSE 0

RECURSIVE IntOf(_, _)
\* int(param) of a run of digits, acc the value of the digits read so far
IntOf(str, acc) ==
    IF str = <<>> THEN acc ELSE IntOf(Tail(str), 10 * acc + DigitVal(Head(str)))

\* one optional group ((?P<name>\d+?)unit)? tried at the start of str:
\* <<TRUE, int(param), rest>> when it matches, <<FALSE, 0, str>> when skipped
MatchGroup(str, unit) ==
    LET n == DigitRun(str)
    IN  IF n >= 1 /\ IsPrefix(unit, Drop(str, n))
        THEN <<TRUE, IntOf(SubSeq(str, 1, n), 0), Drop(str, n + Len(unit))>>
        ELSE <<FALSE, 0, str>>

\* the regex of parse_time matched at the start of time_str, then timedelta
\* of the groups that took part; an absent group contributes nothing
parse_time(time_str) ==
    LET gd == MatchGroup(time_str, <<"d">>)
        gh == MatchGroup(gd[3], <<"h", "r">>)
        gm == MatchGroup(gh[3], <<"m">>)
        gs == MatchGroup(gm[3], <<"s">>)
    IN  timedelta(gd[2], gh[2], gm[2], gs[2])

\* the default of --psize: timedelta(days=1)
DefaultPsize == timedelta(1, 0, 0, 0)

\* ------------------------------------------------------------ '%.5e' % value
RECURSIVE Exp10(_, _)
\* the decimal exponent e of p/q > 0: 10^e <= p/q < 10^(e+1)
Exp10(p, q) ==
    IF p >= 10 * q THEN 1 + Exp10(p, 10 * q)
    ELSE IF p < q THEN Exp10(10 * p, q) - 1
    ELSE 0

\* p/q rounded to the nearest integer, halves to even
RoundDiv(p, q) ==
    LET f == p \div q
        r == p % q
    IN  IF 2 * r < q THEN f
        ELSE IF 2 * r > q THEN f + 1
        ELSE IF f % 2 = 0 THEN f ELSE f + 1

\* '%.5e' % (p/q) for p/q >= 0: <<m, e>> stands for m * 10^(e-5) with six
\* digits in m
Fmt5e(p, q) ==
    IF p = 0 THEN <<0, 0>>
    ELSE LET e == Exp10(p, q)
             m == IF e <= 5 THEN RoundDiv(p * Pow10(5 - e), q)
                  ELSE RoundDiv(p, q * Pow10(e - 5))
         IN  IF m >= 1000000 THEN <<m \div 10, e + 1>> ELSE <<m, e>>

\* ------------------------------------------------------ tags and file names
T1 == <<"a", "/", "b">>

T2 == <<"c">>

\* a tag of the archive whose name holds T1, so LIKE '%a/b%' selects it too
T1x == <<"a", "/", "b", "2">>

\* get_tags(): the stripped, non-blank lines of tag.list, in file order
get_tags == <<T1, T2>>

\* tag.replace('/', '_')
ReplaceSlash(tag) == [i \in 1..Len(tag) |-> IF tag[i] = "/" THEN "_" ELSE tag[i]]

\* filename = id + tag.replace('/', '_') + '.txt'
FileNameOf(id, tag) == id \o ReplaceSlash(tag) \o <<".txt">>

FileNames == {FileNameOf(<<>>, get_tags[i]) : i \in 1..Len(get_tags)}

\* ------------------------------------------------------------- the historian
\* collation of the characters used in tag names (their code points)
CharCode(c) ==
    CASE c = "/" -> 47
      [] c = "2" -> 50
      [] c = "_" -> 95
      [] c = "a" -> 97
      [] c = "b" -> 98
      [] c = "c" -> 99
      [] OTHER -> 0

RECURSIVE TagLess(_, _)
\* order by tag: lexicographic, a proper prefix first
TagLess(s, t) ==
    IF t = <<>> THEN FALSE
    ELSE IF s = <<>> THEN TRUE
    ELSE IF Head(s) # Head(t) THEN CharCode(Head(s)) < CharCode(Head(t))
    ELSE TagLess(Tail(s), Tail(t))

\* pattern matched against text position by position; '_' in a LIKE pattern
\* stands for any one character
LikeAt(pattern, text, k) ==
    \A i \in 1..Len(pattern) : pattern[i] = "_" \/ pattern[i] = text[k + i - 1]

\* tag LIKE '%<tag>%' for a tag without '%'
Like(text, tag) ==
    \E k \in 1..(Len(text) - Len(tag) + 1) : LikeAt(tag, text, k)

\* order by tag,time
RowLess(r, s) ==
    TagLess(r.tag, s.tag) \/ (r.tag = s.tag /\ r.time < s.time)

RECURSIVE SortRows(_)
SortRows(S) ==
    IF S = {} THEN <<>>
    ELSE LET m == CHOOSE r \in S : \A s \in S \ {r} : RowLess(r, s)
         IN  <<m>> \o SortRows(S \ {m})

\* the rows the query selects: time >= startTime and time <= endTime
InRange(time, startTime, endTime) == time >= startTime /\ time <= endTime

\* adodb_query on an archive arch that answers
adodb_query(arch, tag, startTime, endTime) ==
    SortRows({r \in arch : Like(r.tag, tag) /\ InRange(r.time, startTime, endTime)})

\* ------------------------------------------------------------------- files
NoFile == [exists |-> FALSE, data |-> <<>>]

\* os.path.isfile(filename)
isfile(file) == file.exists

\* getTag opening the file for writing whether or not it exists
FileActionAlwaysWrite(file) == "w"

\* action = 'a' if os.path.isfile(filename) else 'w'
FileAction(file) == IF isfile(file) THEN "a" ELSE "w"

\* open(filename, action): 'w' creates or truncates, 'a' creates or keeps
OpenFile(file, action) ==
    IF action = "w" THEN [exists |-> TRUE, data |-> <<>>]
    ELSE [exists |-> TRUE, data |-> file.data]

\* the exporters without their test for an empty record set
HasRowsUnchecked(rs) == TRUE

\* not (rs.BOF or rs.EOF): the record set holds a row
HasRows(rs) == rs # <<>>

\* one line '%s  %s  %.5e' % item of a returned row
RowLine(r) == <<r.tag, r.time, Fmt5e(r.value, 1)>>

\* export(rs, filename, action): the file afterwards, and whether it raised
export(rs, file, action) ==
    LET f == OpenFile(file, action)
    IN  IF HasRows(rs)
        THEN [raised |-> FALSE,
              file |-> [f EXCEPT !.data = @ \o [i \in 1..Len(rs) |-> RowLine(rs[i])]]]
        ELSE [raised |-> FALSE, file |-> f]

RECURSIVE SumValues(_)
SumValues(rs) == IF rs = <<>> THEN 0 ELSE Head(rs).value + SumValues(Tail(rs))

\* export_average naming the line after the first row instead of the last
AverageLineFirstTag(rs, a_date) == <<rs[1].tag, a_date, Fmt5e(SumValues(rs), Len(rs))>>

\* the line export_average writes: tagname of the last row, a_date, ave/num
AverageLine(rs, a_date) == <<rs[Len(rs)].tag, a_date, Fmt5e(SumValues(rs), Len(rs))>>

\* export_average(rs, filename, action, a_date); ave/num raises
\* ZeroDivisionError when no row was counted
export_average(rs, file, action, a_date) ==
    LET f == OpenFile(file, action)
    IN  IF HasRows(rs)
        THEN IF Len(rs) = 0
             THEN [raised |-> TRUE, file |-> f]
             ELSE [raised |-> FALSE,
                   file |-> [f EXCEPT !.data = Append(@, AverageLine(rs, a_date))]]
        ELSE [raised |-> FALSE, file |-> f]

\* ------------------------------------------------------------------- state
VARIABLES
    pc,           \* where the program is: main, clamp, extract, loop, done, exited, crashed
    start,        \* start of the resolved window
    end,          \* end of the resolved window
    psize,        \* args.psize, the packet size asked for
    packet_size,  \* packet_size of the main block, handed to extract_data
    average,      \* args.pave
    archive,      \* the rows the historian holds
    files,        \* the output files, by file name
    tagIdx,       \* position of extract_data's loop in the tag list
    d,            \* the cursor of getTag's packet loop
    connections,  \* connections opened by abodb_connect
    queried,      \* history: <<date1, date2>> of the queries of the current getTag call
    last,         \* history: bounds and outcome of the latest packet
    gotSamples,   \* history: a packet of the current getTag call returned rows
    anyOk,        \* history: some query of the run was answered
    reports       \* the lines extract_data printed: <<tag, "Empty" or "Signal">>

vars == <<pc, start, end, psize, packet_size, average, archive, files, tagIdx, d,
          connections, queried, last, gotSamples, anyOk, reports>>

\* ------------------------------------------------------------------ inputs
\* strings given to -w
WindowStrings == {<<>>, <<"1", "s">>, <<"2", "s">>}

\* strings given to --psize
PsizeStrings == {<<>>, <<"x", "1", "s">>, <<"1", "s">>, <<"2", "s">>, <<"1", "h", "r">>}

\* the values args.psize can take: a parsed string, or the default
PsizeArgs == {parse_time(str) : str \in PsizeStrings} \cup {DefaultPsize}

\* the window of each subcommand (se, sw, ew) as <<start, end>>
WindowSE(s, e) == <<s, e>>

WindowSW(s, w) == <<s, s + w>>

WindowEW(e, w) == <<e - w, e>>

ResolvedWindows ==
    {WindowSE(s, e) : s \in 0..MaxStart, e \in 0..MaxEnd}
    \cup {WindowSW(s, parse_time(w)) : s \in 0..MaxStart, w \in WindowStrings}
    \cup {WindowEW(e, parse_time(w)) : e \in 0..MaxEnd, w \in WindowStrings}

\* rows of the historian
Row(tag, time, value) == [tag |-> tag, time |-> time, value |-> value]

Archives ==
    { {},
      {Row(T1, 2, 1), Row(T1, 3, 2)},
      {Row(T1, 2, 1), Row(T1, 3, 2), Row(T1x, 2, 2)},
      {Row(T1, 0, 1), Row(T2, 1, 3)} }

\* a line left in an output file by an earlier run
OldLine == <<T1, 0, Fmt5e(3, 1)>>

\* what the file of the first tag can be before the run
PreFiles == {NoFile, [exists |-> TRUE, data |-> <<>>], [exists |-> TRUE, data |-> <<OldLine>>]}

NoPacket == [lo |-> 0, hi |-> 0, ok |-> FALSE, raised |-> FALSE, rows |-> <<>>]

\* the most lines a file holds; the historian answers no query that would
\* take a file beyond it
MaxFile == 1 + 3 * MaxLog

\* the state once the arguments are parsed and the window is resolved
Init ==
    /\ pc = "main"
    /\ \E w \in ResolvedWindows : start = w[1] /\ end = w[2]
    /\ psize \in PsizeArgs
    /\ packet_size = psize
    /\ average \in BOOLEAN
    /\ archive \in Archives
    /\ \E f \in PreFiles :
          files = [n \in FileNames |-> IF n = FileNameOf(<<>>, T1) THEN f ELSE NoFile]
    /\ tagIdx = 1
    /\ d = 0
    /\ connections = 0
    /\ queried = <<>>
    /\ last = NoPacket
    /\ gotSamples = FALSE
    /\ anyOk = FALSE
    /\ reports = <<>>

\* ------------------------------------------------------------ the main block
\* the comparison of the window check turned round
InvalidWindowFlipped == end > start

\* if end < start
InvalidWindow == end < start

\* print("End time cannot be after start time!"); sys.exit()
CheckWindow ==
    /\ pc = "main"
    /\ pc' = IF InvalidWindow THEN "exited" ELSE "clamp"
    /\ UNCHANGED <<start, end, psize, packet_size, average, archive, files, tagIdx, d,
                   connections, queried, last, gotSamples, anyOk, reports>>

\* the main block without its clamp
ClampedSizeUnclamped(s, e, p) == p

\* if end-start < packet_size: packet_size = end-start
ClampedSize(s, e, p) == IF e - s < p THEN e - s ELSE p

ClampPacketSize ==
    /\ pc = "clamp"
    /\ packet_size' = ClampedSize(start, end, packet_size)
    /\ pc' = "extract"
    /\ UNCHANGED <<start, end, psize, average, archive, files, tagIdx, d,
                   connections, queried, last, gotSamples, anyOk, reports>>

\* ------------------------------------------------------------------ getTag
CurTag == get_tags[tagIdx]

CurFile == FileNameOf(<<>>, CurTag)

\* for tag in tags: getTag(...) up to the loop: connect, d = startTime
GetTagBegin ==
    /\ pc = "extract"
    /\ tagIdx <= Len(get_tags)
    /\ connections' = connections + 1
    /\ d' = start
    /\ queried' = <<>>
    /\ last' = NoPacket
    /\ gotSamples' = FALSE
    /\ pc' = "loop"
    /\ UNCHANGED <<start, end, psize, packet_size, average, archive, files, tagIdx,
                   anyOk, reports>>

\* while d < endTime
LoopGuard == d < end

\* the cursor after d += delta
Advance(cur, delta) == cur + delta

\* (d-delta/2) of the cursor after the advance
MidPoint(cur, delta) == cur - HalfDelta(delta)

\* the body of the try: the query answered, then the export of its rows
TryBody(rs, file, action, a_date) ==
    IF average THEN export_average(rs, file, action, a_date)
    ELSE export(rs, file, action)

\* one turn of the loop; ok says whether adodb_query answers or raises
Packet(ok) ==
    /\ pc = "loop"
    /\ LoopGuard
    /\ LET date1 == strftime(d)
           dn == Advance(d, packet_size)
           date2 == strftime(dn)
           file == files[CurFile]
           action == FileAction(file)
       IN  \E rs \in {adodb_query(archive, CurTag, date1, date2)} :
           \E res \in {TryBody(rs, file, action, strftime(MidPoint(dn, packet_size)))} :
              /\ ok => Len(res.file.data) <= MaxFile
              /\ d' = dn
              /\ files' = IF ok THEN [files EXCEPT ![CurFile] = res.file] ELSE files
              /\ queried' = IF Len(queried) < MaxLog
                            THEN Append(queried, <<date1, date2>>)
                            ELSE queried
              /\ last' = [lo |-> date1, hi |-> date2, ok |-> ok,
                          raised |-> IF ok THEN res.raised ELSE TRUE,
                          rows |-> IF ok THEN rs ELSE <<>>]
              /\ gotSamples' = (gotSamples \/ (ok /\ rs # <<>>))
              /\ anyOk' = (anyOk \/ ok)
    /\ UNCHANGED <<pc, start, end, psize, packet_size, average, archive, tagIdx,
                   connections, reports>>

PacketAnswered == Packet(TRUE)

PacketFailed == Packet(FALSE)

\* after the loop: os.stat(filename).st_size == 0, os.remove, return, and the
\* print of extract_data; os.stat raises when the file does not exist
GetTagEnd ==
    LET file == files[CurFile]
        isEmpty == Len(file.data) = 0
    IN  /\ pc = "loop"
        /\ ~LoopGuard
        /\ IF ~file.exists
           THEN /\ pc' = "crashed"
                /\ UNCHANGED <<files, reports, tagIdx>>
           ELSE /\ files' = IF isEmpty THEN [files EXCEPT ![CurFile] = NoFile] ELSE files
                /\ reports' = Append(reports, <<CurTag, IF isEmpty THEN "Empty" ELSE "Signal">>)
                /\ tagIdx' = tagIdx + 1
                /\ pc' = "extract"
        /\ UNCHANGED <<start, end, psize, packet_size, average, archive, d,
                       connections, queried, last, gotSamples, anyOk>>

\* extract_data returns once every tag is done
ExtractDone ==
    /\ pc = "extract"
    /\ tagIdx > Len(get_tags)
    /\ pc' = "done"
    /\ UNCHANGED <<start, end, psize, packet_size, average, archive, files, tagIdx, d,
                   connections, queried, last, gotSamples, anyOk, reports>>

Next ==
    \/ CheckWindow
    \/ ClampPacketSize
    \/ GetTagBegin
    \/ PacketAnswered
    \/ PacketFailed
    \/ GetTagEnd
    \/ ExtractDone

Spec == Init /\ [][Next]_vars

\* the program runs until it ends: a step that can be taken is taken
FairSpec == Spec /\ WF_vars(Next)

\* ------------------------------------------------------------ the claims
\* the getTag call has left its loop and is about to stat the file
LoopExit == pc = "loop" /\ ~(d < end)

\* the step about to be taken is a turn of the packet loop
InPacket == pc = "loop" /\ d < end

\* the lines of a file, none when it does not exist
Lines(file) == IF file.exists THEN file.data ELSE <<>>

\* C1: for every window with start < end the bounds queried by getTag split
\* [start, end) into consecutive packets of size packet_size: each packet
\* starts where the previous one ended, none extends past end, no instant lies
\* in the query range of two packets, and the first packet starts no later
\* than start.
\* Stated for the packet sizes above zero, a part of what the claim covers.
C1_PacketsPartitionWindow ==
    (start < end /\ pc = "loop" /\ packet_size > 0) =>
        /\ \A i \in 1..Len(queried) :
              /\ queried[i][2] <= end
              /\ i > 1 => queried[i][1] = queried[i - 1][2]
        /\ \A i, j \in 1..Len(queried) :
              i < j => \A t \in (-MaxEnd - 1)..(2 * MaxEnd + 2) :
                          ~(InRange(t, queried[i][1], queried[i][2])
                            /\ InRange(t, queried[j][1], queried[j][2]))
        /\ Len(queried) >= 1 => queried[1][1] <= start

\* C2: a packet whose query fails writes nothing, the cursor moves on exactly
\* as after an answered query, and no packet bounds are queried twice: every
\* packet up to end is queried exactly once.
C2_FailedPacketSkippedOnce ==
    [][InPacket =>
          /\ ~last'.ok => files' = files
          /\ d' = d + packet_size
          /\ queried'[Len(queried')] = <<last'.lo, last'.hi>>
          /\ \A i, j \in 1..Len(queried') : i < j => queried'[i] # queried'[j]]_vars

\* C3: a getTag call none of whose packets returned a sample ends with no
\* output file for the tag and with the tag reported "Empty", also when the
\* file was never created.
C3_EmptyTagReported ==
    /\ (pc = "crashed") => gotSamples
    /\ (pc = "extract" /\ tagIdx > 1 /\ ~gotSamples) =>
          /\ reports[tagIdx - 1] = <<get_tags[tagIdx - 1], "Empty">>
          /\ ~files[FileNameOf(<<>>, get_tags[tagIdx - 1])].exists

\* C4: with end < start the program exits before a connection is opened, a
\* query is issued or a file is touched; extract_data only runs with
\* end >= start.
C4_InvalidWindowExits ==
    /\ [](pc \in {"clamp", "extract", "loop", "done", "crashed"} => end >= start)
    /\ [](end < start => pc \in {"main", "exited"} /\ connections = 0
                         /\ queried = <<>> /\ ~anyOk /\ reports = <<>>)
    /\ [][end < start => pc' = "exited" /\ files' = files]_vars

C4_Witness == pc = "exited" /\ end < start

\* C5 as claimed: when end - start is below the packet size asked for, the
\* packet size handed to extract_data is end - start and getTag issues exactly
\* one query for the tag, with the bounds start and end; otherwise the packet
\* size is the one asked for.
C5_ClampGivesOnePacket ==
    pc \in {"extract", "loop", "done", "crashed"} =>
        IF end - start < psize
        THEN /\ packet_size = end - start
             /\ LoopExit => queried = << <<start, end>> >>
        ELSE packet_size = psize

\* C5 as amended: when end - start is below the packet size asked for, the
\* packet size handed to extract_data is end - start; for start < end getTag
\* then issues exactly one query for the tag, with the bounds start and end
\* each cut to the whole second, and for start = end it issues none;
\* otherwise the packet size is the one asked for.
C5_ClampGivesOnePacketAmended ==
    pc \in {"extract", "loop", "done", "crashed"} =>
        IF end - start < psize
        THEN /\ packet_size = end - start
             /\ LoopExit =>
                   queried = IF start < end
                             THEN << <<start - (start % TicksPerSecond),
                                       end - (end % TicksPerSecond)>> >>
                             ELSE <<>>
        ELSE packet_size = psize

C5_Witness ==
    /\ LoopExit
    /\ start < end
    /\ end - start < psize
    /\ start % TicksPerSecond # 0
    /\ Len(queried) = 1

\* the packet turn just taken in averaging mode, seen from the step
AveragedLine(file) == file.data[Len(file.data)]

\* C6 as claimed: in averaging mode a packet that returned rows appends
\* exactly one line, with the tag of the last row, the packet midpoint
\* (cursor after the advance minus half the packet size) and the mean of the
\* values as '%.5e' writes it; any other packet appends none.
C6_AverageRecord ==
    [][(InPacket /\ average) =>
          LET before == Lines(files[CurFile])
              after == files'[CurFile]
              rs == last'.rows
          IN  IF last'.ok /\ rs # <<>>
              THEN /\ after.exists
                   /\ Len(after.data) = Len(before) + 1
                   /\ SubSeq(after.data, 1, Len(before)) = before
                   /\ AveragedLine(after)[1] = rs[Len(rs)].tag
                   /\ 2 * AveragedLine(after)[2] = 2 * d' - packet_size
                   /\ AveragedLine(after)[3] = Fmt5e(SumValues(rs), Len(rs))
              ELSE Lines(after) = before]_vars

\* C6 as amended: in averaging mode a packet that returned rows appends
\* exactly one line, with the tag of the last row, the packet midpoint
\* (cursor after the advance minus half the packet size) cut to the whole
\* second, and the mean of the values as '%.5e' writes it; any other packet
\* appends none.
C6_AverageRecordAmended ==
    [][(InPacket /\ average) =>
          LET before == Lines(files[CurFile])
              after == files'[CurFile]
              rs == last'.rows
          IN  IF last'.ok /\ rs # <<>>
              THEN /\ after.exists
                   /\ Len(after.data) = Len(before) + 1
                   /\ SubSeq(after.data, 1, Len(before)) = before
                   /\ AveragedLine(after)[1] = rs[Len(rs)].tag
                   /\ AveragedLine(after)[2] = strftime(d' - HalfDelta(packet_size))
                   /\ AveragedLine(after)[3] = Fmt5e(SumValues(rs), Len(rs))
              ELSE Lines(after) = before]_vars

C6_Witness ==
    /\ pc = "loop"
    /\ average
    /\ last.ok
    /\ Len(last.rows) >= 2
    /\ last.rows[1].tag # last.rows[Len(last.rows)].tag
    /\ packet_size % (2 * TicksPerSecond) # 0
    /\ Len(files[CurFile].data) >= 2

\* C7: a line that is in an output file stays in it, unchanged and in place:
\* every packet turn leaves an existing file existing with its old content as a
\* prefix of the new, and outside the packet turns only an empty file goes.
C7_AppendOnly ==
    [][\A n \in FileNames :
          files[n].exists =>
             /\ Len(files[n].data) <= Len(files'[n].data)
             /\ SubSeq(files'[n].data, 1, Len(files[n].data)) = files[n].data
             /\ files'[n].exists \/ (~InPacket /\ files[n].data = <<>>)]_vars

C7_Witness ==
    /\ pc = "loop"
    /\ Len(queried) >= 2
    /\ Len(files[CurFile].data) >= 3
    /\ files[CurFile].data[1] = OldLine

\* C8: when every query of the run fails the run does not abort, and every
\* tag of the catalogue is reported once, in order, as "Empty".
C8_AllFailedAllEmpty ==
    (~anyOk /\ Len(queried) >= 1) =>
        /\ pc # "crashed"
        /\ Len(reports) <= Len(get_tags)
        /\ \A i \in 1..Len(reports) : reports[i] = <<get_tags[i], "Empty">>
        /\ pc = "done" => Len(reports) = Len(get_tags)

\* C9: a packet whose query is answered with no row raises nothing, in either
\* mode, leaves the lines of the file as they were, and the loop goes on.
C9_EmptyResultNoError ==
    [][(InPacket /\ last'.ok /\ last'.rows = <<>>) =>
          /\ ~last'.raised
          /\ Lines(files'[CurFile]) = Lines(files[CurFile])
          /\ pc' = "loop"]_vars

C9_Witness ==
    /\ pc = "loop"
    /\ average
    /\ Len(queried) >= 1
    /\ last.ok
    /\ last.rows = <<>>
    /\ ~last.raised

\* C10: the packet loop of getTag ends: once in the loop, the cursor reaches
\* end or beyond, for every packet size the program can resolve.
C10_LoopTerminates == (pc = "loop") ~> (~(d < end))

====
